---- MODULE Spec2Model ----
(***************************************************************************)
(* Chain Head Coordinator (CHC): the in-memory LocalChc of                 *)
(* crates/holochain/src/conductor/chc.rs, used by concurrent callers.      *)
(*                                                                         *)
(* The coordinator state is one Vec<Vec<A>> behind a parking_lot Mutex.    *)
(* Every trait method takes the lock, runs its body and drops the guard    *)
(* when it returns (or unwinds).  A caller is modelled by its position:    *)
(*   "idle"  not inside a coordinator method                               *)
(*   "lock"  inside a method, at `self.transactions.lock()`                *)
(*   "crit"  holding the guard, about to run the body                      *)
(*   "done"  the method has returned (or unwound); ret holds the outcome   *)
(*                                                                         *)
(* Two history variables record what happened: accepted lists the batches  *)
(* of the calls that returned Ok, in the order they returned, and seen[c]  *)
(* is the number of accepted batches at the moment caller c's body ran.    *)
(*                                                                         *)
(* The chain validator of the design (validate_chain) is a pure function;  *)
(* the repository declares only the ChainItem trait it works on and the    *)
(* InvalidChain error it reports, so it is written here from its           *)
(* description.  validation holds one call of it: its inputs and result.   *)
(*                                                                         *)
(* handles holds LocalChc values as the program sees them: handles that    *)
(* point to reference-counted logs, made by default() and by clone().      *)
(*                                                                         *)
(* remote holds one ChcRemote client, the service it talks to and the      *)
(* exchange in flight between them.                                        *)
(***************************************************************************)
EXTENDS Integers, Sequences, FiniteSets, TLC

VARIABLES transactions, mutex, pc, op, ret, accepted, seen, validation,
          handles, remote, writers

vars == <<transactions, mutex, pc, op, ret, accepted, seen, validation, handles, remote,
          writers>>

----------------------------------------------------------------------------
(* Bounds *)

\* number of concurrent callers sharing one LocalChc handle
NumCallers == 2
\* hashes are 1..MaxHash
MaxHash == 3
\* longest batch a caller submits
MaxBatchLen == 2
\* the log holds at most MaxTxns transactions (add_transaction is never called
\* with txn_id = MaxTxns, the one id whose success would grow it further)
MaxTxns == 2

Callers == 1..NumCallers

----------------------------------------------------------------------------
(* Items: ChcItem exposes a hash and an optional previous hash.            *)

\* Option::None of prev_hash(); Some(h) is h itself
None == 0

Hashes == 1..MaxHash

\* The hash is a content identifier, so an item is determined by its hash.
\* The item universe is a binary tree of hashes: item 1 has no parent and
\* item h > 1 has parent h \div 2, so the universe contains chains (1,2,4)
\* as well as siblings (2 and 3 both name 1 as their parent).
Items == { [hash |-> h, prev_hash |-> h \div 2] : h \in Hashes }

prev_hash(a) == a.prev_hash

as_hash(a) == a.hash

RECURSIVE SeqsUpTo(_, _)
SeqsUpTo(S, n) ==
    IF n = 0 THEN { <<>> }
    ELSE LET shorter == SeqsUpTo(S, n - 1)
         IN  shorter \cup { Append(s, x) : s \in { q \in shorter : Len(q) = n - 1 }, x \in S }

\* the batches (Vec<A>) a caller may pass to add_transaction: the empty batch
\* and the batches that list items in ascending hash order (a parent has a
\* smaller hash than its children, so every hash-linked batch is among them,
\* next to batches of siblings and of unrelated items)
Batches ==
    { b \in SeqsUpTo(Items, MaxBatchLen) :
        \A i, j \in 1..Len(b) : i < j => as_hash(b[i]) < as_hash(b[j]) }

\* txn_id arguments of add_transaction: stale, current and premature ids
AddIds == (0..(MaxTxns + 1)) \ {MaxTxns}

\* txn_id arguments of get_transactions_since_id: up to one past the longest log
SinceIds == 0..(MaxTxns + 1)

----------------------------------------------------------------------------
(* Outcomes of a call *)

NoRet == [kind |-> "none", id |-> 0, txns |-> <<>>]

RetOk == [kind |-> "Ok", id |-> 0, txns |-> <<>>]

WrongTransactionId == [kind |-> "WrongTransactionId", id |-> 0, txns |-> <<>>]

HashMismatch == [kind |-> "HashMismatch", id |-> 0, txns |-> <<>>]

\* the slice index panicked and the call unwound
Panic == [kind |-> "panic", id |-> 0, txns |-> <<>>]

RetId(n) == [kind |-> "TxnId", id |-> n, txns |-> <<>>]

RetTxns(t) == [kind |-> "Transactions", id |-> 0, txns |-> t]

NoOp == [name |-> "none", txn_id |-> 0, actions |-> <<>>]

----------------------------------------------------------------------------
(* The bodies of the three methods, as functions of the locked Vec.        *)

\* txns.last().and_then(|t| t.last()) as a sequence of zero or one item
LastItem(txns) ==
    IF Len(txns) = 0 THEN <<>>
    ELSE IF Len(txns[Len(txns)]) = 0 THEN <<>>
    ELSE << txns[Len(txns)][Len(txns[Len(txns)])] >>

\* actions.first() as a sequence of zero or one item
FirstItem(actions) == IF Len(actions) = 0 THEN <<>> ELSE << actions[1] >>

\* variant: the check compares with the first item of the last transaction
HashCheckAgainstFirst(txns, actions) ==
    /\ LastItem(txns) # <<>>
    /\ FirstItem(actions) # <<>>
    /\ prev_hash(FirstItem(actions)[1]) # as_hash(txns[Len(txns)][1])

\* the `if let (Some(last), Some(next))` hash check of add_transaction
HashCheckFails(txns, actions) ==
    /\ LastItem(txns) # <<>>
    /\ FirstItem(actions) # <<>>
    /\ prev_hash(FirstItem(actions)[1]) # as_hash(LastItem(txns)[1])

\* variant: every item of the batch is pushed as a transaction of its own
PushItemwise(txns, actions) == txns \o [i \in 1..Len(actions) |-> << actions[i] >>]

\* variant: the batch is inserted at the front of the Vec
PushFront(txns, actions) == << actions >> \o txns

\* (*txns).push(actions)
Push(txns, actions) == Append(txns, actions)

\* variant: only a stale id is rejected (`>` for `!=`)
AddTransactionAcceptsPremature(txns, txn_id, actions) ==
    IF Len(txns) > txn_id
    THEN [ret |-> WrongTransactionId, txns |-> txns]
    ELSE IF HashCheckFails(txns, actions)
         THEN [ret |-> HashMismatch, txns |-> txns]
         ELSE [ret |-> RetOk, txns |-> Push(txns, actions)]

\* variant: only a premature id is rejected (`<` for `!=`)
AddTransactionAcceptsStale(txns, txn_id, actions) ==
    IF Len(txns) < txn_id
    THEN [ret |-> WrongTransactionId, txns |-> txns]
    ELSE IF HashCheckFails(txns, actions)
         THEN [ret |-> HashMismatch, txns |-> txns]
         ELSE [ret |-> RetOk, txns |-> Push(txns, actions)]

\* variant: a hash mismatch discards the transaction it was checked against
AddTransactionPopsOnMismatch(txns, txn_id, actions) ==
    IF Len(txns) # txn_id
    THEN [ret |-> WrongTransactionId, txns |-> txns]
    ELSE IF HashCheckFails(txns, actions)
         THEN [ret |-> HashMismatch, txns |-> SubSeq(txns, 1, Len(txns) - 1)]
         ELSE [ret |-> RetOk, txns |-> Push(txns, actions)]

\* variant: the batch is pushed before the id is checked
AddTransactionPushesFirst(txns, txn_id, actions) ==
    IF Len(txns) # txn_id
    THEN [ret |-> WrongTransactionId, txns |-> Push(txns, actions)]
    ELSE IF HashCheckFails(txns, actions)
         THEN [ret |-> HashMismatch, txns |-> txns]
         ELSE [ret |-> RetOk, txns |-> Push(txns, actions)]

\* variant: every item of the batch must link to the item before it
AddTransactionChecksEveryLink(txns, txn_id, actions) ==
    IF Len(txns) # txn_id
    THEN [ret |-> WrongTransactionId, txns |-> txns]
    ELSE IF \/ HashCheckFails(txns, actions)
            \/ \E i \in 2..Len(actions) : prev_hash(actions[i]) # as_hash(actions[i - 1])
         THEN [ret |-> HashMismatch, txns |-> txns]
         ELSE [ret |-> RetOk, txns |-> Push(txns, actions)]

\* variant: the hash check is made before the id check
AddTransactionChecksHashFirst(txns, txn_id, actions) ==
    IF HashCheckFails(txns, actions)
    THEN [ret |-> HashMismatch, txns |-> txns]
    ELSE IF Len(txns) # txn_id
         THEN [ret |-> WrongTransactionId, txns |-> txns]
         ELSE [ret |-> RetOk, txns |-> Push(txns, actions)]

\* variant: the first item of the first transaction must have no prev_hash
AddTransactionRequiresGenesis(txns, txn_id, actions) ==
    IF Len(txns) # txn_id
    THEN [ret |-> WrongTransactionId, txns |-> txns]
    ELSE IF \/ HashCheckFails(txns, actions)
            \/ (Len(txns) = 0 /\ Len(actions) > 0 /\ prev_hash(actions[1]) # None)
         THEN [ret |-> HashMismatch, txns |-> txns]
         ELSE [ret |-> RetOk, txns |-> Push(txns, actions)]

\* variant: a batch that some caller has already been refused with
\* HashMismatch is let through when it is submitted again
AddTransactionForgivesRetry(txns, txn_id, actions) ==
    IF Len(txns) # txn_id
    THEN [ret |-> WrongTransactionId, txns |-> txns]
    ELSE IF /\ HashCheckFails(txns, actions)
            /\ ~\E c \in Callers : ret[c] = HashMismatch /\ op[c].actions = actions
         THEN [ret |-> HashMismatch, txns |-> txns]
         ELSE [ret |-> RetOk, txns |-> Push(txns, actions)]

\* variant: a refused id is used up, the log grows by an empty transaction
AddTransactionBurnsRefusedId(txns, txn_id, actions) ==
    IF Len(txns) # txn_id
    THEN [ret |-> WrongTransactionId, txns |-> Append(txns, <<>>)]
    ELSE IF HashCheckFails(txns, actions)
         THEN [ret |-> HashMismatch, txns |-> txns]
         ELSE [ret |-> RetOk, txns |-> Push(txns, actions)]

\* add_transaction under the lock: the outcome and the Vec it leaves
AddTransaction(txns, txn_id, actions) ==
    IF Len(txns) # txn_id
    THEN [ret |-> WrongTransactionId, txns |-> txns]
    ELSE IF HashCheckFails(txns, actions)
         THEN [ret |-> HashMismatch, txns |-> txns]
         ELSE [ret |-> RetOk, txns |-> Push(txns, actions)]

\* variant: the index of the last transaction instead of the length
NextTransactionIdLastIndex(txns) == IF Len(txns) = 0 THEN 0 ELSE Len(txns) - 1

\* self.transactions.lock().len()
NextTransactionId(txns) == Len(txns)

\* variant: the range starts after txn_id (`txn_id + 1..`)
GetTransactionsAfterId(txns, txn_id) ==
    IF txn_id + 1 > Len(txns)
    THEN Panic
    ELSE RetTxns(SubSeq(txns, txn_id + 2, Len(txns)))

\* self.transactions.lock()[txn_id..].to_vec(): the range index panics
\* when txn_id is greater than the length
GetTransactionsSinceId(txns, txn_id) ==
    IF txn_id > Len(txns)
    THEN Panic
    ELSE RetTxns(SubSeq(txns, txn_id + 1, Len(txns)))

----------------------------------------------------------------------------
(* The chain validator.  It works on items that know their own hash, the   *)
(* hash of their predecessor and their position in the chain (the          *)
(* ChainItem trait), and on the current head: absent, or a hash and a      *)
(* position.                                                                *)

MaxChainHash == 2
MaxSeq == 2
MaxChainLen == 3

ChainItems ==
    { [hash |-> h, prev_hash |-> p, seq |-> n] :
        h \in 1..MaxChainHash, p \in 0..MaxChainHash, n \in 0..MaxSeq }

item_hash(a) == a.hash

seq(a) == a.seq

\* the current head as a sequence of zero or one (hash, position) pair
Heads ==
    { <<>> } \cup { << [hash |-> h, seq |-> n] >> : h \in 1..MaxChainHash, n \in 0..MaxSeq }

\* candidate chains are non-empty
Candidates == SeqsUpTo(ChainItems, MaxChainLen) \ { <<>> }

Pending == [kind |-> "pending", index |-> 0]

ValidOk == [kind |-> "Ok", index |-> 0]

\* the error names the offending index, counted from 0
InvalidChain(i) == [kind |-> "InvalidChain", index |-> i]

NoValidation == [candidate |-> <<>>, head |-> <<>>, result |-> [kind |-> "none", index |-> 0]]

\* variant: a candidate without a head need not start at position 0
HeadCheckAnyGenesisPosition(candidate, head) ==
    IF head = <<>>
    THEN prev_hash(candidate[1]) # None
    ELSE \/ prev_hash(candidate[1]) # head[1].hash
         \/ seq(candidate[1]) # head[1].seq + 1

\* variant: the first item may sit at the position of the head itself
HeadCheckSamePosition(candidate, head) ==
    IF head = <<>>
    THEN \/ seq(candidate[1]) # 0
         \/ prev_hash(candidate[1]) # None
    ELSE \/ prev_hash(candidate[1]) # head[1].hash
         \/ seq(candidate[1]) \notin { head[1].seq, head[1].seq + 1 }

\* the check on the first item: against the head when there is one,
\* otherwise the item must be a genesis item
HeadCheckFails(candidate, head) ==
    IF head = <<>>
    THEN \/ seq(candidate[1]) # 0
         \/ prev_hash(candidate[1]) # None
    ELSE \/ prev_hash(candidate[1]) # head[1].hash
         \/ seq(candidate[1]) # head[1].seq + 1

\* the check on a later item: it links to the item before it
LinkFails(candidate, i) == prev_hash(candidate[i]) # item_hash(candidate[i - 1])

\* the first item, in order, that fails its check (0 when none does)
RECURSIVE FirstOffending(_, _, _)
FirstOffending(candidate, head, i) ==
    IF i > Len(candidate) THEN 0
    ELSE IF (IF i = 1 THEN HeadCheckFails(candidate, head) ELSE LinkFails(candidate, i))
         THEN i
         ELSE FirstOffending(candidate, head, i + 1)

\* variant: the internal links are reported before the first item is looked at
ValidateChainLinksFirst(candidate, head) ==
    LET broken == { i \in 2..Len(candidate) : LinkFails(candidate, i) }
    IN  IF broken # {}
        THEN InvalidChain((CHOOSE i \in broken : \A j \in broken : i <= j) - 1)
        ELSE IF HeadCheckFails(candidate, head) THEN InvalidChain(0) ELSE ValidOk

\* validate_chain(candidate_items, current_head)
validate_chain(candidate, head) ==
    LET i == FirstOffending(candidate, head, 1)
    IN  IF i = 0 THEN ValidOk ELSE InvalidChain(i - 1)

----------------------------------------------------------------------------
(* The remote client.  Payloads are byte strings; a byte string is modelled *)
(* by the schema it was written in and the value it carries, and decoding  *)
(* succeeds only for the schema the reader expects.                         *)

Bytes(schema, hash, items, error) ==
    [schema |-> schema, hash |-> hash, items |-> items, error |-> error]

NoBytes == Bytes("none", None, <<>>, "")

\* encode(&actions)
EncodeItems(actions) == Bytes("items", None, actions, "")

\* encode(&hash)
EncodeHash(h) == Bytes("hash", h, <<>>, "")

\* the payload of GET /head: an optional hash
EncodeOptionHash(h) == Bytes("option_hash", h, <<>>, "")

\* the payload of an accepted append
EncodeUnit == Bytes("unit", None, <<>>, "")

\* the payload of a failure response
EncodeError(e) == Bytes("error", None, <<>>, e)

\* a payload written in a schema the client does not know
Incompatible == Bytes("incompatible", None, <<>>, "")

\* decode(&response): the bytes read in the expected schema, or an error
Decodes(schema, bytes) == bytes.schema = schema

\* requests and responses
Request(method, path, body) == [method |-> method, path |-> path, body |-> body]

NoRequest == Request("none", "", NoBytes)

Response(status, body) == [status |-> status, body |-> body]

NoResponse == Response("none", NoBytes)

\* results of the client's methods: ChcResult<T>
RemoteResult(kind, hash, items) == [kind |-> kind, hash |-> hash, items |-> items]

NoResult == RemoteResult("none", None, <<>>)

OkUnit == RemoteResult("Ok", None, <<>>)

OkHash(h) == RemoteResult("Ok", h, <<>>)

OkItems(items) == RemoteResult("Ok", None, items)

ServiceUnreachable == RemoteResult("ServiceUnreachable", None, <<>>)

\* the method unwound on a failed assertion
RemotePanic == RemoteResult("panic", None, <<>>)

DeserializationError == RemoteResult("DeserializationError", None, <<>>)

\* a call of the client: the method and its argument
RemoteCall(name, hash, actions) == [name |-> name, hash |-> hash, actions |-> actions]

NoCall == RemoteCall("none", None, <<>>)

\* path.chars().nth(0) for the paths written in the client; "" when the
\* path has no first character
FirstChar(path) ==
    CASE path = "/head" -> "/"
      [] path = "/add_actions" -> "/"
      [] path = "/get_actions_since_hash" -> "/"
      [] path = "head" -> "h"
      [] OTHER -> ""

\* what url yields when its assertion fails: the call unwinds
Aborted == "assertion failed"

\* self.url(path): asserts that the path starts with '/'; the base address
\* is fixed and the path tells endpoints apart
Url(path) == IF FirstChar(path) = "/" THEN path ELSE Aborted

\* ChcRemote::get(path)
Get(path) == Request("GET", Url(path), NoBytes)

\* ChcRemote::post(path, body): the URL is built from "/add_actions"
\* whatever path was passed
Post(path, body) == Request("POST", Url("/add_actions"), body)

\* variant: head() passes its path without the leading '/'
ClientRequestBarePath(call) ==
    CASE call.name = "head" -> Get("head")
      [] call.name = "add_actions" -> Post("/add_actions", EncodeItems(call.actions))
      [] call.name = "get_actions_since_hash" ->
            Post("/get_actions_since_hash", EncodeHash(call.hash))

\* the request a method sends
ClientRequest(call) ==
    CASE call.name = "head" -> Get("/head")
      [] call.name = "add_actions" -> Post("/add_actions", EncodeItems(call.actions))
      [] call.name = "get_actions_since_hash" ->
            Post("/get_actions_since_hash", EncodeHash(call.hash))

\* variant: an undecodable head is read as "no head"
HeadResultDefaults(response) ==
    IF Decodes("option_hash", response.body)
    THEN OkHash(response.body.hash)
    ELSE OkHash(None)

\* head(): Ok(decode(&response)?)
HeadResult(response) ==
    IF Decodes("option_hash", response.body)
    THEN OkHash(response.body.hash)
    ELSE DeserializationError

\* add_actions(): the response is bound and dropped, then Ok(())
AddActionsResult(response) == OkUnit

\* get_actions_since_hash(): Ok(decode(&response)?)
GetActionsSinceHashResult(response) ==
    IF Decodes("items", response.body)
    THEN OkItems(response.body.items)
    ELSE DeserializationError

\* what a method returns once its exchange has produced a response; the
\* status of the response is not looked at
OnResponse(call, response) ==
    CASE call.name = "head" -> HeadResult(response)
      [] call.name = "add_actions" -> AddActionsResult(response)
      [] call.name = "get_actions_since_hash" -> GetActionsSinceHashResult(response)

\* the method continues after `.await?`: a reqwest::Error becomes
\* ServiceUnreachable and is returned, a response is turned into the result
Resume(r) ==
    IF r.phase = "failed"
    THEN [r EXCEPT !.phase = "done", !.ret = ServiceUnreachable]
    ELSE [r EXCEPT !.phase = "done", !.ret = OnResponse(r.call, r.response)]

----------------------------------------------------------------------------
(* The coordinating service: it keeps a transaction log, runs the          *)
(* reference algorithm on it and answers on the three endpoints.            *)

\* the hash of the last committed item, None for a log without items
RECURSIVE ChainHead(_)
ChainHead(log) ==
    IF Len(log) = 0 THEN None
    ELSE IF Len(log[Len(log)]) > 0
         THEN as_hash(log[Len(log)][Len(log[Len(log)])])
         ELSE ChainHead(SubSeq(log, 1, Len(log) - 1))

RECURSIVE AllItems(_)
AllItems(log) ==
    IF Len(log) = 0 THEN <<>>
    ELSE AllItems(SubSeq(log, 1, Len(log) - 1)) \o log[Len(log)]

\* the committed items after the item with hash h
ItemsAfter(log, h) ==
    LET items == AllItems(log)
        at == { i \in 1..Len(items) : as_hash(items[i]) = h }
    IN  IF at = {} THEN <<>>
        ELSE SubSeq(items, (CHOOSE i \in at : \A j \in at : j <= i) + 1, Len(items))

\* the service handles one request: the log it leaves and its response
Service(log, request) ==
    CASE request.method = "GET" /\ request.path = "/head" ->
            [log |-> log, response |-> Response("success", EncodeOptionHash(ChainHead(log)))]
      [] request.method = "POST" /\ request.path = "/add_actions" ->
            IF Decodes("items", request.body)
            THEN LET r == AddTransaction(log, NextTransactionId(log), request.body.items)
                 IN  IF r.ret = RetOk
                     THEN [log |-> r.txns, response |-> Response("success", EncodeUnit)]
                     ELSE [log |-> log,
                           response |-> Response("failure", EncodeError(r.ret.kind))]
            ELSE [log |-> log, response |-> Response("failure", EncodeError("BadRequest"))]
      [] request.method = "POST" /\ request.path = "/get_actions_since_hash" ->
            IF Decodes("hash", request.body)
            THEN [log |-> log,
                  response |-> Response("success", EncodeItems(ItemsAfter(log, request.body.hash)))]
            ELSE [log |-> log, response |-> Response("failure", EncodeError("BadRequest"))]
      [] OTHER ->
            [log |-> log, response |-> Response("failure", EncodeError("NotFound"))]

\* the same call made on a local coordinator holding `log`: its result and
\* the log it leaves.  An append is made with the id the coordinator expects.
LocalCall(log, call) ==
    CASE call.name = "head" -> [log |-> log, ret |-> OkHash(ChainHead(log))]
      [] call.name = "add_actions" ->
            LET r == AddTransaction(log, NextTransactionId(log), call.actions)
            IN  [log |-> r.txns,
                 ret |-> IF r.ret = RetOk THEN OkUnit
                         ELSE RemoteResult(r.ret.kind, None, <<>>)]
      [] call.name = "get_actions_since_hash" ->
            [log |-> log, ret |-> OkItems(ItemsAfter(log, call.hash))]

----------------------------------------------------------------------------
(* Placeholders of the parts a specification does not exercise *)

\* the last operation made through a handle and its outcome
NoObs == [h |-> 0, op |-> NoOp, ret |-> NoRet]

\* no client has been made
NoRemote ==
    [phase |-> "off", call |-> NoCall, request |-> NoRequest, response |-> NoResponse,
     ret |-> NoResult, sent |-> <<>>, served |-> 0, fault |-> FALSE, reliable |-> TRUE,
     log |-> <<>>, before |-> <<>>, mirror |-> <<>>, expect |-> NoResult]

NoHandles == [heap |-> <<>>, ptr |-> <<>>, family |-> <<>>, appended |-> <<>>, obs |-> NoObs]

\* a caller that is not a writer: no cycle position, nothing remembered
NoWriter == [stage |-> "off", id |-> 0, base |-> 0, alone |-> FALSE, retried |-> FALSE]

NoWriters == [c \in Callers |-> NoWriter]

----------------------------------------------------------------------------
(* State machine *)

\* LocalChc::default(): an empty Vec behind an unlocked Mutex
Init ==
    /\ transactions = <<>>
    /\ mutex = 0
    /\ pc = [c \in Callers |-> "idle"]
    /\ op = [c \in Callers |-> NoOp]
    /\ ret = [c \in Callers |-> NoRet]
    /\ accepted = <<>>
    /\ seen = [c \in Callers |-> 0]
    /\ validation = NoValidation
    /\ handles = NoHandles
    /\ remote = NoRemote
    /\ writers = NoWriters

\* a caller enters one of the three methods with its arguments
Call(c, name, txn_id, actions) ==
    /\ pc[c] = "idle"
    /\ pc' = [pc EXCEPT ![c] = "lock"]
    /\ op' = [op EXCEPT ![c] = [name |-> name, txn_id |-> txn_id, actions |-> actions]]
    /\ ret' = [ret EXCEPT ![c] = NoRet]
    /\ seen' = [seen EXCEPT ![c] = 0]
    /\ UNCHANGED <<transactions, mutex, accepted, validation, handles, remote, writers>>

call_next_transaction_id(c) == Call(c, "next_transaction_id", 0, <<>>)

call_add_transaction(c) ==
    \E k \in AddIds, b \in Batches : Call(c, "add_transaction", k, b)

call_get_transactions_since_id(c) ==
    \E k \in SinceIds : Call(c, "get_transactions_since_id", k, <<>>)

\* variant: the guard is taken without waiting for its holder
LockWithoutWaiting(c) ==
    /\ pc[c] = "lock"
    /\ mutex' = c
    /\ pc' = [pc EXCEPT ![c] = "crit"]
    /\ UNCHANGED <<transactions, op, ret, accepted, seen, validation, handles, remote, writers>>

\* self.transactions.lock(): blocks while another caller holds the guard
lock(c) ==
    /\ pc[c] = "lock"
    /\ mutex = 0
    /\ mutex' = c
    /\ pc' = [pc EXCEPT ![c] = "crit"]
    /\ UNCHANGED <<transactions, op, ret, accepted, seen, validation, handles, remote, writers>>

\* variant: the guard is kept after the method has returned
UnlockKeepsGuard(c) == mutex

\* the guard is dropped when the method returns or unwinds
Unlock(c) == IF mutex = c THEN 0 ELSE mutex

next_transaction_id(c) ==
    /\ pc[c] = "crit"
    /\ mutex = c
    /\ op[c].name = "next_transaction_id"
    /\ ret' = [ret EXCEPT ![c] = RetId(NextTransactionId(transactions))]
    /\ mutex' = Unlock(c)
    /\ seen' = [seen EXCEPT ![c] = Len(accepted)]
    /\ pc' = [pc EXCEPT ![c] = "done"]
    /\ UNCHANGED <<transactions, op, accepted, validation, handles, remote, writers>>

add_transaction(c) ==
    /\ pc[c] = "crit"
    /\ mutex = c
    /\ op[c].name = "add_transaction"
    /\ LET r == AddTransaction(transactions, op[c].txn_id, op[c].actions)
       IN  /\ transactions' = r.txns
           /\ ret' = [ret EXCEPT ![c] = r.ret]
           /\ accepted' = IF r.ret = RetOk THEN Append(accepted, op[c].actions) ELSE accepted
    /\ mutex' = Unlock(c)
    /\ seen' = [seen EXCEPT ![c] = Len(accepted)]
    /\ pc' = [pc EXCEPT ![c] = "done"]
    /\ UNCHANGED <<op, validation, handles, remote, writers>>

\* variant: the tail is split off the log and handed to the caller
\* (`split_off(txn_id)` for `[txn_id..].to_vec()`)
GetTransactionsSinceIdSplitsOff(c) ==
    /\ pc[c] = "crit"
    /\ mutex = c
    /\ op[c].name = "get_transactions_since_id"
    /\ ret' = [ret EXCEPT ![c] = GetTransactionsSinceId(transactions, op[c].txn_id)]
    /\ transactions' = IF op[c].txn_id > Len(transactions) THEN transactions
                       ELSE SubSeq(transactions, 1, op[c].txn_id)
    /\ mutex' = Unlock(c)
    /\ seen' = [seen EXCEPT ![c] = Len(accepted)]
    /\ pc' = [pc EXCEPT ![c] = "done"]
    /\ UNCHANGED <<op, accepted, validation, handles, remote, writers>>

get_transactions_since_id(c) ==
    /\ pc[c] = "crit"
    /\ mutex = c
    /\ op[c].name = "get_transactions_since_id"
    /\ ret' = [ret EXCEPT ![c] = GetTransactionsSinceId(transactions, op[c].txn_id)]
    /\ mutex' = Unlock(c)
    /\ seen' = [seen EXCEPT ![c] = Len(accepted)]
    /\ pc' = [pc EXCEPT ![c] = "done"]
    /\ UNCHANGED <<transactions, op, accepted, validation, handles, remote, writers>>

\* the caller has consumed the outcome and may call again
Return(c) ==
    /\ pc[c] = "done"
    /\ pc' = [pc EXCEPT ![c] = "idle"]
    /\ op' = [op EXCEPT ![c] = NoOp]
    /\ ret' = [ret EXCEPT ![c] = NoRet]
    /\ seen' = [seen EXCEPT ![c] = 0]
    /\ UNCHANGED <<transactions, mutex, accepted, validation, handles, remote, writers>>

Next ==
    \E c \in Callers :
        \/ call_next_transaction_id(c)
        \/ call_add_transaction(c)
        \/ call_get_transactions_since_id(c)
        \/ lock(c)
        \/ next_transaction_id(c)
        \/ add_transaction(c)
        \/ get_transactions_since_id(c)
        \/ Return(c)

Spec == Init /\ [][Next]_vars

\* Fair scheduling: a caller inside a method keeps running, so a body under
\* the guard is eventually executed, and a caller that finds the mutex free
\* again and again eventually gets it (parking_lot hands the lock over
\* fairly in the long run).  Callers need not call again, nor consume results.
FairSpec ==
    /\ Spec
    /\ \A c \in Callers :
          /\ SF_vars(lock(c))
          /\ WF_vars(next_transaction_id(c) \/ add_transaction(c)
                        \/ get_transactions_since_id(c))

\* One call of the validator: the inputs are drawn, the coordinator is idle
ValidateInit ==
    /\ transactions = <<>>
    /\ mutex = 0
    /\ pc = [c \in Callers |-> "idle"]
    /\ op = [c \in Callers |-> NoOp]
    /\ ret = [c \in Callers |-> NoRet]
    /\ accepted = <<>>
    /\ seen = [c \in Callers |-> 0]
    /\ validation \in { [candidate |-> cand, head |-> h, result |-> Pending] :
                          cand \in Candidates, h \in Heads }
    /\ handles = NoHandles
    /\ remote = NoRemote
    /\ writers = NoWriters

validate ==
    /\ validation.result = Pending
    /\ validation' = [validation EXCEPT
                        !.result = validate_chain(validation.candidate, validation.head)]
    /\ UNCHANGED <<transactions, mutex, pc, op, ret, accepted, seen, handles, remote, writers>>

ValidateNext == validate

ValidateSpec == ValidateInit /\ [][ValidateNext]_vars

----------------------------------------------------------------------------
(* LocalChc values.  A LocalChc is one field, an Arc to the locked Vec:    *)
(* handles.heap holds the allocations, handles.ptr[h] is the allocation    *)
(* handle h points to.  handles.family[h] remembers the construction a     *)
(* handle descends from: a handle made by default() starts a family, a     *)
(* clone belongs to the family of the handle it was cloned from, and       *)
(* handles.appended[f] lists the batches accepted through the handles of   *)
(* family f.  Each method runs under the lock of its allocation, in one    *)
(* step.                                                                   *)

MaxHandles == 3

\* the batches passed through handles: empty or one item
HandleBatches == { b \in Batches : Len(b) <= 1 }

HandleIds == 1..Len(handles.ptr)

\* the Vec behind handle h
View(h) == handles.heap[handles.ptr[h]]

\* one coordinator has been constructed
HandleInit ==
    /\ transactions = <<>>
    /\ mutex = 0
    /\ pc = [c \in Callers |-> "idle"]
    /\ op = [c \in Callers |-> NoOp]
    /\ ret = [c \in Callers |-> NoRet]
    /\ accepted = <<>>
    /\ seen = [c \in Callers |-> 0]
    /\ validation = NoValidation
    /\ remote = NoRemote
    /\ writers = NoWriters
    /\ handles = [heap |-> << <<>> >>, ptr |-> <<1>>, family |-> <<1>>,
                  appended |-> << <<>> >>, obs |-> NoObs]

\* variant: every coordinator is a handle to one process-wide log
DefaultUsesGlobal(hs) ==
    [hs EXCEPT !.ptr = Append(hs.ptr, 1),
               !.family = Append(hs.family, Len(hs.ptr) + 1),
               !.appended = Append(hs.appended, <<>>)]

\* LocalChc::default(): Arc::new(Mutex::new(Default::default()))
Default(hs) ==
    [hs EXCEPT !.heap = Append(hs.heap, <<>>),
               !.ptr = Append(hs.ptr, Len(hs.heap) + 1),
               !.family = Append(hs.family, Len(hs.ptr) + 1),
               !.appended = Append(hs.appended, <<>>)]

\* variant: clone copies the Vec into a new allocation
CloneCopiesLog(hs, h) ==
    [hs EXCEPT !.heap = Append(hs.heap, hs.heap[hs.ptr[h]]),
               !.ptr = Append(hs.ptr, Len(hs.heap) + 1),
               !.family = Append(hs.family, hs.family[h]),
               !.appended = Append(hs.appended, <<>>)]

\* #[derive(Clone)]: Arc::clone of the one field
Clone(hs, h) ==
    [hs EXCEPT !.ptr = Append(hs.ptr, hs.ptr[h]),
               !.family = Append(hs.family, hs.family[h]),
               !.appended = Append(hs.appended, <<>>)]

LocalChc_default ==
    /\ Len(handles.ptr) < MaxHandles
    /\ handles' = Default(handles)
    /\ UNCHANGED <<transactions, mutex, pc, op, ret, accepted, seen, validation, remote, writers>>

LocalChc_clone ==
    /\ Len(handles.ptr) < MaxHandles
    /\ \E h \in HandleIds : handles' = Clone(handles, h)
    /\ UNCHANGED <<transactions, mutex, pc, op, ret, accepted, seen, validation, remote, writers>>

handle_next_transaction_id ==
    /\ \E h \in HandleIds :
          handles' = [handles EXCEPT
              !.obs = [h |-> h,
                       op |-> [name |-> "next_transaction_id", txn_id |-> 0, actions |-> <<>>],
                       ret |-> RetId(NextTransactionId(View(h)))]]
    /\ UNCHANGED <<transactions, mutex, pc, op, ret, accepted, seen, validation, remote, writers>>

handle_add_transaction ==
    /\ \E h \in HandleIds, k \in AddIds, b \in HandleBatches :
          LET r == AddTransaction(View(h), k, b)
          IN  handles' = [handles EXCEPT
                  !.heap[handles.ptr[h]] = r.txns,
                  !.appended[handles.family[h]] =
                      IF r.ret = RetOk THEN Append(@, b) ELSE @,
                  !.obs = [h |-> h,
                           op |-> [name |-> "add_transaction", txn_id |-> k, actions |-> b],
                           ret |-> r.ret]]
    /\ UNCHANGED <<transactions, mutex, pc, op, ret, accepted, seen, validation, remote, writers>>

handle_get_transactions_since_id ==
    /\ \E h \in HandleIds, k \in SinceIds :
          handles' = [handles EXCEPT
              !.obs = [h |-> h,
                       op |-> [name |-> "get_transactions_since_id", txn_id |-> k, actions |-> <<>>],
                       ret |-> GetTransactionsSinceId(View(h), k)]]
    /\ UNCHANGED <<transactions, mutex, pc, op, ret, accepted, seen, validation, remote, writers>>

HandleNext ==
    \/ LocalChc_default
    \/ LocalChc_clone
    \/ handle_next_transaction_id
    \/ handle_add_transaction
    \/ handle_get_transactions_since_id

HandleSpec == HandleInit /\ [][HandleNext]_vars

----------------------------------------------------------------------------
(* One caller drives a ChcRemote against the service.  The caller awaits   *)
(* each method before it calls the next.                                    *)

\* a client with its base address, a service with an empty log
RemoteInit ==
    /\ transactions = <<>>
    /\ mutex = 0
    /\ pc = [c \in Callers |-> "idle"]
    /\ op = [c \in Callers |-> NoOp]
    /\ ret = [c \in Callers |-> NoRet]
    /\ accepted = <<>>
    /\ seen = [c \in Callers |-> 0]
    /\ validation = NoValidation
    /\ handles = NoHandles
    /\ remote = [NoRemote EXCEPT !.phase = "idle"]
    /\ writers = NoWriters

\* the method builds its request and sends it; when url aborts, nothing is
\* sent and the call unwinds
Issue(call) ==
    /\ remote.phase = "idle"
    /\ remote' = [remote EXCEPT
                    !.phase = IF ClientRequest(call).path = Aborted THEN "done" ELSE "sent",
                    !.ret = IF ClientRequest(call).path = Aborted THEN RemotePanic ELSE NoResult,
                    !.call = call,
                    !.request = IF ClientRequest(call).path = Aborted THEN NoRequest
                                ELSE ClientRequest(call),
                    !.sent = IF ClientRequest(call).path = Aborted THEN <<>>
                             ELSE << ClientRequest(call) >>,
                    !.served = 0,
                    !.fault = FALSE,
                    !.before = remote.log,
                    !.mirror = LocalCall(remote.mirror, call).log,
                    !.expect = LocalCall(remote.mirror, call).ret]
    /\ UNCHANGED <<transactions, mutex, pc, op, ret, accepted, seen, validation, handles, writers>>

head == Issue(RemoteCall("head", None, <<>>))

add_actions ==
    /\ Len(remote.log) < MaxTxns
    /\ Len(remote.mirror) < MaxTxns
    /\ \E b \in Batches : Issue(RemoteCall("add_actions", None, b))

get_actions_since_hash == \E h \in Hashes : Issue(RemoteCall("get_actions_since_hash", h, <<>>))

\* the service handles the request and answers
serve ==
    /\ remote.phase = "sent"
    /\ LET out == Service(remote.log, remote.request)
       IN  remote' = [remote EXCEPT
                        !.phase = "replied",
                        !.log = out.log,
                        !.response = out.response,
                        !.served = @ + 1]
    /\ UNCHANGED <<transactions, mutex, pc, op, ret, accepted, seen, validation, handles, writers>>

\* the service is up but answers with a non-success status
serve_error ==
    /\ remote.phase = "sent"
    /\ remote' = [remote EXCEPT
                    !.phase = "replied",
                    !.response = Response("failure", EncodeError("Unavailable")),
                    !.served = @ + 1,
                    !.fault = TRUE,
                    !.reliable = FALSE]
    /\ UNCHANGED <<transactions, mutex, pc, op, ret, accepted, seen, validation, handles, writers>>

\* the service handles the request and answers in a schema the client does
\* not know
serve_incompatible ==
    /\ remote.phase = "sent"
    /\ LET out == Service(remote.log, remote.request)
       IN  remote' = [remote EXCEPT
                        !.phase = "replied",
                        !.log = out.log,
                        !.response = Response(out.response.status, Incompatible),
                        !.served = @ + 1,
                        !.fault = TRUE,
                        !.reliable = FALSE]
    /\ UNCHANGED <<transactions, mutex, pc, op, ret, accepted, seen, validation, handles, writers>>

\* connection failure or timeout: the request or the response is lost
transport_fails ==
    /\ remote.phase \in { "sent", "replied" }
    /\ remote' = [remote EXCEPT
                    !.phase = "failed",
                    !.response = NoResponse,
                    !.fault = TRUE,
                    !.reliable = FALSE]
    /\ UNCHANGED <<transactions, mutex, pc, op, ret, accepted, seen, validation, handles, writers>>

\* the awaited exchange has ended and the method runs to its return
resume ==
    /\ remote.phase \in { "replied", "failed" }
    /\ remote' = Resume(remote)
    /\ UNCHANGED <<transactions, mutex, pc, op, ret, accepted, seen, validation, handles, writers>>

\* the caller has consumed the result and may call again
finish ==
    /\ remote.phase = "done"
    /\ remote' = [remote EXCEPT
                    !.phase = "idle",
                    !.call = NoCall,
                    !.request = NoRequest,
                    !.response = NoResponse,
                    !.ret = NoResult,
                    !.sent = <<>>,
                    !.served = 0,
                    !.fault = FALSE,
                    !.expect = NoResult]
    /\ UNCHANGED <<transactions, mutex, pc, op, ret, accepted, seen, validation, handles, writers>>

RemoteNext ==
    \/ head
    \/ add_actions
    \/ get_actions_since_hash
    \/ serve
    \/ serve_error
    \/ serve_incompatible
    \/ transport_fails
    \/ resume
    \/ finish

RemoteSpec == RemoteInit /\ [][RemoteNext]_vars

----------------------------------------------------------------------------
(* Vocabulary of the properties *)

\* the step in which caller c runs the body of method `name` under the lock
Runs(c, name) == pc[c] = "crit" /\ pc'[c] = "done" /\ op[c].name = name

\* caller c has returned from method `name` and still holds its outcome
Returned(c, name) == pc[c] = "done" /\ op[c].name = name

Rejections == { WrongTransactionId, HashMismatch }

IsPrefix(s, t) == Len(s) <= Len(t) /\ SubSeq(t, 1, Len(s)) = s

\* the committed items in commit order
RECURSIVE Flatten(_)
Flatten(txns) ==
    IF Len(txns) = 0 THEN <<>>
    ELSE Flatten(SubSeq(txns, 1, Len(txns) - 1)) \o txns[Len(txns)]

----------------------------------------------------------------------------
(* C1: whenever add_transaction(k, items) runs with k different from the   *)
(* number of committed transactions, smaller or larger, it returns         *)
(* WrongTransactionId, whatever the items are.                             *)
C1_WrongTransactionId ==
    \A c \in Callers :
        (Returned(c, "add_transaction") /\ op[c].txn_id # seen[c])
            => ret[c] = WrongTransactionId

\* one caller was rejected with a stale id and another with a premature id
C1_Witness ==
    \E c, d \in Callers :
        /\ Returned(c, "add_transaction") /\ ret[c] = WrongTransactionId
        /\ op[c].txn_id < seen[c]
        /\ Returned(d, "add_transaction") /\ ret[d] = WrongTransactionId
        /\ op[d].txn_id > seen[d]
        /\ op[d].actions # <<>>

(* C2: when add_transaction(n, items) runs with n equal to the transaction *)
(* count, n > 0, and items[0].prev_hash differs from the hash of the last  *)
(* item of transaction n-1, it returns HashMismatch and the log is the     *)
(* same after the call as before it.                                       *)
C2_HashMismatch ==
    [][ \A c \in Callers :
          ( /\ Runs(c, "add_transaction")
            /\ op[c].txn_id = Len(accepted)
            /\ op[c].txn_id > 0
            /\ Len(op[c].actions) > 0
            /\ Len(accepted[op[c].txn_id]) > 0
            /\ LET prior == accepted[op[c].txn_id]
               IN  op[c].actions[1].prev_hash # prior[Len(prior)].hash )
              => (ret'[c] = HashMismatch /\ transactions' = transactions) ]_vars

\* a batch submitted at the right index was rejected for its parent hash,
\* against a last transaction of more than one item
C2_Witness ==
    \E c \in Callers :
        /\ Returned(c, "add_transaction") /\ ret[c] = HashMismatch
        /\ op[c].txn_id = Len(transactions)
        /\ Len(transactions[Len(transactions)]) > 1

(* C3: add_transaction is atomic: a call either appends its whole batch as *)
(* exactly one new transaction or leaves the log unchanged, and whatever   *)
(* any caller observes through next_transaction_id or                      *)
(* get_transactions_since_id is made of whole accepted batches.            *)
WholeBatchesOnly ==
    /\ Len(transactions) = Len(accepted)
    /\ \A i \in 1..Len(transactions) : transactions[i] = accepted[i]
    /\ \A c \in Callers :
          /\ Returned(c, "next_transaction_id") => ret[c].id <= Len(accepted)
          /\ Returned(c, "get_transactions_since_id") =>
                \A i \in 1..Len(ret[c].txns) :
                    /\ op[c].txn_id + i <= Len(accepted)
                    /\ ret[c].txns[i] = accepted[op[c].txn_id + i]

C3_Atomic ==
    [][ /\ \A c \in Callers :
             Runs(c, "add_transaction") =>
                 \/ ret'[c] = RetOk /\ transactions' = Append(transactions, op[c].actions)
                 \/ ret'[c] \in Rejections /\ transactions' = transactions
        /\ WholeBatchesOnly' ]_vars

\* a two-item batch was committed by one caller and read back whole by the other
C3_Witness ==
    \E c, d \in Callers :
        /\ Returned(c, "add_transaction") /\ ret[c] = RetOk
        /\ Len(op[c].actions) = 2
        /\ Returned(d, "get_transactions_since_id")
        /\ \E i \in 1..Len(ret[d].txns) : ret[d].txns[i] = op[c].actions

(* C4: on a fresh coordinator, after T0..Tn were appended successfully in  *)
(* order, with rejected calls in between, next_transaction_id() returns    *)
(* n+1 and get_transactions_since_id(0) returns exactly [T0, ..., Tn].     *)
C4_AppendedInOrder ==
    \A c \in Callers :
        /\ Returned(c, "next_transaction_id") => ret[c] = RetId(seen[c])
        /\ (Returned(c, "get_transactions_since_id") /\ op[c].txn_id = 0)
              => ret[c] = RetTxns(SubSeq(accepted, 1, seen[c]))

\* two batches were accepted, a third call was rejected, and the whole log was read
C4_Witness ==
    \E c, d \in Callers :
        /\ Returned(c, "get_transactions_since_id") /\ op[c].txn_id = 0
        /\ ret[c] = RetTxns(accepted)
        /\ Len(accepted) = 2
        /\ accepted[1] # accepted[2]
        /\ Returned(d, "add_transaction") /\ ret[d] \in Rejections

(* C5: next_transaction_id() returns the number of add_transaction calls   *)
(* that have succeeded so far, which is 0 as long as none has succeeded    *)
(* (the log of a fresh coordinator is empty), and the call never fails.    *)
C5_NextIsCount ==
    /\ accepted = <<>> => transactions = <<>>
    /\ \A c \in Callers :
          Returned(c, "next_transaction_id") =>
              /\ ret[c].kind = "TxnId"
              /\ ret[c].id = seen[c]

\* the count was read after a success while another caller's add was rejected
C5_Witness ==
    \E c, d \in Callers :
        /\ Returned(c, "next_transaction_id") /\ ret[c] = RetId(1)
        /\ seen[c] = 1
        /\ Returned(d, "add_transaction") /\ ret[d] = WrongTransactionId

(* C6: for every k not greater than the transaction count,                 *)
(* get_transactions_since_id(k) returns exactly the transactions committed *)
(* at indices k, k+1, ..., count-1, in ascending order.                    *)
C6_SinceId ==
    \A c \in Callers :
        (Returned(c, "get_transactions_since_id") /\ op[c].txn_id <= seen[c])
            => /\ ret[c].kind = "Transactions"
               /\ Len(ret[c].txns) = seen[c] - op[c].txn_id
               /\ \A j \in (op[c].txn_id)..(seen[c] - 1) :
                      ret[c].txns[j - op[c].txn_id + 1] = accepted[j + 1]

\* a proper, non-empty suffix of a two-transaction log was returned
C6_Witness ==
    \E c \in Callers :
        /\ Returned(c, "get_transactions_since_id") /\ op[c].txn_id = 1
        /\ seen[c] = 2
        /\ ret[c] = RetTxns(<< accepted[2] >>)

(* C7: for every k greater than or equal to the transaction count,         *)
(* get_transactions_since_id(k) returns the empty sequence and does not    *)
(* fail or abort.                                                          *)
C7_EmptyBeyondLog ==
    \A c \in Callers :
        (Returned(c, "get_transactions_since_id") /\ op[c].txn_id >= seen[c])
            => ret[c] = RetTxns(<<>>)

(* C8: the log is append-only: every step leaves the earlier log a prefix  *)
(* of the later one, and the length changes only by a successful           *)
(* add_transaction, by exactly one.                                        *)
C8_AppendOnly ==
    [][ /\ IsPrefix(transactions, transactions')
        /\ Len(transactions') # Len(transactions) =>
              \E c \in Callers :
                  /\ Runs(c, "add_transaction")
                  /\ ret'[c] = RetOk
                  /\ Len(transactions') = Len(transactions) + 1 ]_vars

\* the log holds two transactions and a hash mismatch has just been reported
C8_Witness ==
    /\ Len(transactions) = 2
    /\ \E c \in Callers : Returned(c, "add_transaction") /\ ret[c] = HashMismatch

(* C9: of several add_transaction calls made with the same txn_id at most  *)
(* one succeeds, in whatever order the callers take the lock, and the log  *)
(* holds the winner's batch at that index.                                 *)
C9_OneWinner ==
    \A c, d \in Callers :
        ( /\ c # d
          /\ Returned(c, "add_transaction") /\ Returned(d, "add_transaction")
          /\ op[c].txn_id = op[d].txn_id
          /\ ret[c] = RetOk )
            => /\ ret[d] \in Rejections
               /\ transactions[op[c].txn_id + 1] = op[c].actions

\* two callers submitted different batches for index 1; the first to take
\* the lock won and the other, running next, was rejected
C9_Witness ==
    \E c, d \in Callers :
        /\ Returned(c, "add_transaction") /\ Returned(d, "add_transaction")
        /\ op[c].txn_id = 1 /\ op[d].txn_id = 1
        /\ op[c].actions # op[d].actions
        /\ ret[c] = RetOk /\ seen[c] = 1
        /\ ret[d] = WrongTransactionId /\ seen[d] = 2

(* C10: the committed log never contains a fork: when the committed items  *)
(* have distinct hashes, no two of them have the same prev_hash.           *)
C10_NoFork ==
    LET items == Flatten(transactions)
    IN  (\A i, j \in 1..Len(items) : i # j => items[i].hash # items[j].hash)
            => (\A i, j \in 1..Len(items) : i # j => items[i].prev_hash # items[j].prev_hash)

(* C11: for every committed transaction with index n > 0, the prev_hash of *)
(* its first item equals the hash of the final item of transaction n-1.    *)
(* (Stated for the transactions that have a first item; where transaction  *)
(* n-1 has no final item, only an absent prev_hash counts as equal.)       *)
C11_BoundaryContinuity ==
    \A n \in 2..Len(transactions) :
        Len(transactions[n]) > 0 =>
            LET prior == transactions[n - 1]
            IN  transactions[n][1].prev_hash
                    = IF Len(prior) > 0 THEN prior[Len(prior)].hash ELSE None

(* C12: every transaction in the committed log is non-empty.               *)
C12_NonEmpty ==
    \A n \in 1..Len(transactions) : Len(transactions[n]) > 0

(* C13: the committed items in commit order form a valid hash chain: the   *)
(* first item of the log has no prev_hash and every later item has         *)
(* prev_hash equal to the hash of the item immediately before it.          *)
C13_HashChain ==
    LET items == Flatten(transactions)
    IN  \A i \in 1..Len(items) :
            IF i = 1
            THEN items[i].prev_hash = None
            ELSE items[i].prev_hash = items[i - 1].hash

(* C14: transaction ids are 0-based and gapless: a successful              *)
(* add_transaction is one called with txn_id equal to the number of        *)
(* successes before it, and the value of next_transaction_id() never       *)
(* decreases, rising by one at a success and by zero at a failure.         *)
C14_Gapless ==
    [][ /\ NextTransactionId(transactions') >= NextTransactionId(transactions)
        /\ \A c \in Callers :
              Runs(c, "add_transaction") =>
                  IF ret'[c] = RetOk
                  THEN /\ op[c].txn_id = Len(accepted)
                       /\ NextTransactionId(transactions')
                             = NextTransactionId(transactions) + 1
                  ELSE NextTransactionId(transactions')
                             = NextTransactionId(transactions) ]_vars

\* ids 0 and 1 were assigned in turn while another call was rejected
C14_Witness ==
    \E c, d \in Callers :
        /\ Returned(c, "add_transaction") /\ ret[c] = RetOk
        /\ op[c].txn_id = 1 /\ seen[c] = 1
        /\ NextTransactionId(transactions) = 2
        /\ Returned(d, "add_transaction") /\ ret[d] \in Rejections

(* C18: no coordinator operation aborts (panics) on caller-supplied input: *)
(* every call returns a normal value or a ChcError.                        *)
C18_NoPanic ==
    \A c \in Callers : pc[c] = "done" => ret[c] # Panic

(* C19: the operations of concurrent callers are serialized by the single  *)
(* lock: at most one caller is inside its critical section at any time,    *)
(* and the log and every returned outcome are those of running the same    *)
(* operations one at a time, in the order in which they held the lock.     *)

\* the log obtained by submitting the batches one after another, alone
RECURSIVE Replay(_)
Replay(batches) ==
    IF Len(batches) = 0 THEN <<>>
    ELSE AddTransaction(Replay(SubSeq(batches, 1, Len(batches) - 1)),
                        Len(batches) - 1, batches[Len(batches)]).txns

\* the outcome of one call made alone against a given log
Alone(log, o) ==
    CASE o.name = "add_transaction" -> AddTransaction(log, o.txn_id, o.actions).ret
      [] o.name = "next_transaction_id" -> RetId(NextTransactionId(log))
      [] o.name = "get_transactions_since_id" -> GetTransactionsSinceId(log, o.txn_id)

C19_Serialized ==
    /\ \A c, d \in Callers : (pc[c] = "crit" /\ pc[d] = "crit") => c = d
    /\ \A c \in Callers : pc[c] = "crit" => mutex = c
    /\ transactions = Replay(accepted)
    /\ \A c \in Callers :
          pc[c] = "done" => ret[c] = Alone(Replay(SubSeq(accepted, 1, seen[c])), op[c])

\* after one commit, a caller holds the guard for an append while the other
\* waits at the lock with an append for the same index
C19_Witness ==
    \E c, d \in Callers :
        /\ pc[c] = "crit" /\ mutex = c /\ pc[d] = "lock"
        /\ op[c].name = "add_transaction" /\ op[d].name = "add_transaction"
        /\ op[c].txn_id = 1 /\ op[d].txn_id = 1
        /\ Len(accepted) = 1

(* C20: every operation releases the lock before it returns, on the        *)
(* success path and on both error returns of add_transaction, so the lock  *)
(* is free whenever no caller is in a critical section; under fair         *)
(* scheduling every invoked operation eventually returns.                  *)
C20_ReleasesAndReturns ==
    /\ [](\A c \in Callers : pc[c] \in {"idle", "lock", "done"} => mutex # c)
    /\ []((\A c \in Callers : pc[c] # "crit") => mutex = 0)
    /\ \A c \in Callers : (pc[c] = "lock") ~> (pc[c] = "done")

\* both error returns and a success have happened and the lock is free
C20_Witness ==
    \E c, d \in Callers :
        /\ Returned(c, "add_transaction") /\ ret[c] = WrongTransactionId
        /\ Returned(d, "add_transaction") /\ ret[d] = HashMismatch
        /\ Len(accepted) > 0
        /\ mutex = 0

----------------------------------------------------------------------------
(* The chain validator *)

\* the validator has been applied to the drawn inputs
Validated == validation.result.kind \in { "Ok", "InvalidChain" }

\* every item after the first carries the hash of the item before it
HashLinked(C) == \A i \in 2..Len(C) : C[i].prev_hash = C[i - 1].hash

\* C15: without a head, validate_chain succeeds exactly when the first item
\* has position 0 and no prev_hash and every later item's prev_hash is the
\* hash of the item before it.
C15_GenesisChain ==
    (Validated /\ validation.head = <<>>) =>
        LET C == validation.candidate
        IN  (validation.result = ValidOk)
                <=> (C[1].seq = 0 /\ C[1].prev_hash = None /\ HashLinked(C))

\* a genesis chain of three linked items was accepted
C15_Witness ==
    /\ Validated
    /\ validation.head = <<>>
    /\ Len(validation.candidate) >= 3
    /\ validation.result = ValidOk

\* C16: with a head, validate_chain succeeds only if the first item's
\* prev_hash is the head's hash, its position is the head's position plus
\* one, and the candidate is internally hash-linked; a candidate failing
\* either head condition is rejected.
C16_ExtendsHead ==
    (Validated /\ validation.head # <<>>) =>
        LET C == validation.candidate
            current == validation.head[1]
        IN  /\ validation.result = ValidOk =>
                  /\ C[1].prev_hash = current.hash
                  /\ C[1].seq = current.seq + 1
                  /\ HashLinked(C)
            /\ (C[1].prev_hash # current.hash \/ C[1].seq # current.seq + 1) =>
                  validation.result.kind = "InvalidChain"

\* a linked candidate of two items was accepted on top of a head
C16_Witness ==
    /\ Validated
    /\ validation.head # <<>>
    /\ Len(validation.candidate) >= 2
    /\ validation.result = ValidOk

\* the check of the item at index i (counted from 0) fails
CheckFailsAt(C, current_head, i) ==
    IF i > 0 THEN C[i + 1].prev_hash # C[i].hash
    ELSE IF current_head = <<>> THEN C[1].seq # 0 \/ C[1].prev_hash # None
    ELSE C[1].prev_hash # current_head[1].hash \/ C[1].seq # current_head[1].seq + 1

\* C17: when some check fails, validate_chain fails with InvalidChain naming
\* the smallest index whose check fails (0 for the head or genesis check,
\* i > 0 for a broken link); when no check fails it succeeds with no value.
C17_FirstOffendingIndex ==
    Validated =>
        LET C == validation.candidate
            offending == { i \in 0..(Len(C) - 1) : CheckFailsAt(C, validation.head, i) }
        IN  IF offending = {}
            THEN validation.result = ValidOk
            ELSE /\ validation.result.kind = "InvalidChain"
                 /\ validation.result.index \in offending
                 /\ \A j \in offending : validation.result.index <= j

\* the first item and a later link are both wrong and index 0 is named
C17_Witness ==
    /\ Validated
    /\ validation.result = InvalidChain(0)
    /\ \E i \in 2..Len(validation.candidate) :
          validation.candidate[i].prev_hash # validation.candidate[i - 1].hash

----------------------------------------------------------------------------
(* Boundary-only continuity and reconciliation *)

\* the hash of the last committed item of a log, None for a log without items
HeadHash(log) ==
    LET items == Flatten(log)
    IN  IF Len(items) = 0 THEN None ELSE items[Len(items)].hash

\* C29: add_transaction(n, items) with n the current count and
\* items[0].prev_hash the current head hash succeeds, whatever the prev_hash
\* of the later items of the batch.
C29_BoundaryOnly ==
    \A c \in Callers :
        Returned(c, "add_transaction") =>
            LET log == Replay(SubSeq(accepted, 1, seen[c]))
                items == op[c].actions
            IN  ( /\ op[c].txn_id = Len(log)
                  /\ Len(items) > 0
                  /\ items[1].prev_hash = HeadHash(log) )
                    => ret[c] = RetOk

\* a batch whose second item does not link to its first was accepted on top
\* of a committed head
C29_Witness ==
    \E c \in Callers :
        /\ Returned(c, "add_transaction")
        /\ ret[c] = RetOk
        /\ seen[c] >= 1
        /\ Len(op[c].actions) >= 2
        /\ op[c].actions[1].prev_hash = HeadHash(Replay(SubSeq(accepted, 1, seen[c])))
        /\ op[c].actions[1].prev_hash # None
        /\ op[c].actions[2].prev_hash # op[c].actions[1].hash

\* the committed transactions with an id of at least k
CommittedFrom(log, k) == [i \in 1..(IF k < Len(log) THEN Len(log) - k ELSE 0) |-> log[k + i]]

\* C28: after a rejected add_transaction(k, B), get_transactions_since_id(k)
\* returns exactly the committed transactions with id >= k, and a batch
\* whose first item's prev_hash is the hash of the last item of that result,
\* submitted with id k + (length of the result) before any other append,
\* succeeds.
C28_Reconcile ==
    \A c \in Callers :
        (Returned(c, "add_transaction") /\ ret[c] \in Rejections) =>
            LET k == op[c].txn_id
                missed == GetTransactionsSinceId(transactions, k)
            IN  /\ missed = RetTxns(CommittedFrom(transactions, k))
                /\ \A rebased \in Batches :
                      ( /\ Len(rebased) > 0
                        /\ Flatten(missed.txns) # <<>>
                        /\ rebased[1].prev_hash = HeadHash(missed.txns) )
                          => AddTransaction(transactions, k + Len(missed.txns), rebased).ret = RetOk

----------------------------------------------------------------------------
(* Shared-ownership handles *)

\* handles a and b descend from the same construction
SameCoordinator(a, b) == handles.family[a] = handles.family[b]

\* C30: through every handle, next_transaction_id and
\* get_transactions_since_id show exactly the batches accepted through the
\* handle's own coordinator (the handle and its clones), in order: clones
\* observe and extend one log, and separately constructed coordinators
\* never change each other's log.
C30_SharedHandle ==
    \A b \in HandleIds :
        LET own == handles.appended[handles.family[b]]
        IN  /\ NextTransactionId(View(b)) = Len(own)
            /\ GetTransactionsSinceId(View(b), 0) = RetTxns(own)

\* an append through one handle is seen through its clone as id 1, while a
\* separately constructed coordinator is still empty
C30_Witness ==
    \E a, b, c \in HandleIds :
        /\ a # b
        /\ SameCoordinator(a, b)
        /\ ~SameCoordinator(a, c)
        /\ Len(View(a)) = 1
        /\ Len(View(a)[1]) = 1
        /\ View(c) = <<>>
        /\ handles.obs.h = b
        /\ handles.obs.op.name = "next_transaction_id"
        /\ handles.obs.ret = RetId(1)

----------------------------------------------------------------------------
(* The remote client *)

\* the client has returned from method `name`
RemoteReturned(name) == remote.phase = "done" /\ remote.call.name = name

\* the exchange of the current call produced a response of the service's
\* own algorithm: no loss, no outage, no foreign schema
Answered == remote.phase = "done" /\ ~remote.fault

\* C21: add_actions returns Ok only when the service accepted and committed
\* the batch; when the service rejected it (WrongTransactionId or
\* HashMismatch), the client returns that error.
C21_RejectionReported ==
    (RemoteReturned("add_actions") /\ Answered) =>
        /\ remote.ret = OkUnit => remote.log = Append(remote.before, remote.call.actions)
        /\ \A e \in { "WrongTransactionId", "HashMismatch" } :
              remote.response = Response("failure", EncodeError(e)) => remote.ret.kind = e

\* the exchange of the returned call produced no response at all
NoResponseProduced == remote.response = NoResponse

\* the response carries a non-success status that is not a rejection of the
\* coordinator's algorithm
NonSuccessStatus ==
    /\ remote.response.status = "failure"
    /\ remote.response.body.error \notin { "WrongTransactionId", "HashMismatch" }

\* C22: a call whose exchange produced no response (connection failure,
\* timeout) or a response with a non-success status returns
\* ServiceUnreachable, never Ok or a decoded value.
C22_Unreachable ==
    (remote.phase = "done" /\ (NoResponseProduced \/ NonSuccessStatus)) =>
        remote.ret = ServiceUnreachable

\* the endpoint of each method
Endpoint(name) ==
    CASE name = "head" -> "/head"
      [] name = "add_actions" -> "/add_actions"
      [] name = "get_actions_since_hash" -> "/get_actions_since_hash"

\* C23: every request goes to the endpoint of its method, so only
\* add_actions reaches the append endpoint, and the two queries leave the
\* service's log as it was.
C23_OwnEndpoint ==
    remote.phase \in { "sent", "replied", "failed", "done" } =>
        /\ \A i \in 1..Len(remote.sent) : remote.sent[i].path = Endpoint(remote.call.name)
        /\ remote.call.name \in { "head", "get_actions_since_hash" } =>
              remote.log = remote.before

\* the exchange of the returned call failed: no response, or a response
\* that reports a failure
ExchangeFailed == NoResponseProduced \/ remote.response.status = "failure"

\* C24: a call issues exactly one request, which carries that call's own
\* payload only and is handled by the service at most once; after a failed
\* exchange nothing is sent again and the call returns the failure.
C24_OneExchange ==
    /\ remote.phase = "idle" => (remote.sent = <<>> /\ remote.served = 0)
    /\ remote.phase \in { "sent", "replied", "failed", "done" } =>
          /\ remote.sent = << ClientRequest(remote.call) >>
          /\ remote.served <= 1
    /\ (remote.phase = "done" /\ ExchangeFailed) => remote.ret.kind # "Ok"

\* C25: over a transport that has never failed, with the service running
\* the reference algorithm, every call through the remote client returns
\* what the same call returns on a local coordinator given the same
\* sequence of calls, and leaves the same log.
C25_SameContract ==
    (remote.phase = "done" /\ remote.reliable) =>
        /\ remote.ret = remote.expect
        /\ remote.log = remote.mirror

\* the schema each query decodes its response in
QuerySchema(name) ==
    CASE name = "head" -> "option_hash"
      [] name = "get_actions_since_hash" -> "items"

\* C27: a query whose response payload cannot be decoded returns
\* DeserializationError, with no value, after its one request.
C27_Undecodable ==
    \A name \in { "head", "get_actions_since_hash" } :
        ( /\ RemoteReturned(name)
          /\ ~NoResponseProduced
          /\ remote.response.body.schema # QuerySchema(name) )
            => /\ remote.ret = DeserializationError
               /\ Len(remote.sent) = 1
               /\ remote.served = 1

\* head() was answered in a schema the client does not know, on a log that
\* has a head, and returned DeserializationError
C27_Witness ==
    /\ RemoteReturned("head")
    /\ remote.response = Response("success", Incompatible)
    /\ ChainHead(remote.log) # None
    /\ remote.ret = DeserializationError

----------------------------------------------------------------------------
(* Order of the checks, the first transaction, determinism, queries *)

\* the log caller c's body ran on
LogSeenBy(c) == Replay(SubSeq(accepted, 1, seen[c]))

\* the first item of the batch does not carry the hash of the last item of
\* the last transaction of the log
BreaksBoundary(log, items) ==
    /\ Len(items) > 0
    /\ Len(log) > 0
    /\ Len(log[Len(log)]) > 0
    /\ items[1].prev_hash # log[Len(log)][Len(log[Len(log)])].hash

\* C32: a submission with a wrong txn_id and a first item that does not
\* match the head returns WrongTransactionId, and HashMismatch is returned
\* only for a submission whose txn_id is the current count.
C32_IdCheckFirst ==
    \A c \in Callers :
        Returned(c, "add_transaction") =>
            /\ ( /\ op[c].txn_id # Len(LogSeenBy(c))
                 /\ BreaksBoundary(LogSeenBy(c), op[c].actions) )
                   => ret[c] = WrongTransactionId
            /\ ret[c] = HashMismatch =>
                  /\ op[c].txn_id = Len(LogSeenBy(c))
                  /\ BreaksBoundary(LogSeenBy(c), op[c].actions)

\* one caller was rejected for its id although its batch also broke the
\* boundary, another was rejected for the hash with the right id
C32_Witness ==
    \E c, d \in Callers :
        /\ Returned(c, "add_transaction")
        /\ op[c].txn_id # Len(LogSeenBy(c))
        /\ BreaksBoundary(LogSeenBy(c), op[c].actions)
        /\ ret[c] = WrongTransactionId
        /\ Returned(d, "add_transaction")
        /\ ret[d] = HashMismatch

\* C33: on an empty log add_transaction(0, items) succeeds for every batch,
\* whether or not its first item carries a prev_hash.
C33_FirstTransaction ==
    \A c \in Callers :
        ( /\ Returned(c, "add_transaction")
          /\ seen[c] = 0
          /\ op[c].txn_id = 0 )
            => ret[c] = RetOk

\* a first batch whose first item has a parent hash was committed
C33_Witness ==
    \E c \in Callers :
        /\ Returned(c, "add_transaction")
        /\ seen[c] = 0
        /\ op[c].txn_id = 0
        /\ Len(op[c].actions) > 0
        /\ op[c].actions[1].prev_hash # None
        /\ ret[c] = RetOk
        /\ transactions = << op[c].actions >>

C35_ReadOnly ==
    [][ \A c \in Callers :
          /\ (Runs(c, "next_transaction_id") \/ Runs(c, "get_transactions_since_id"))
                => transactions' = transactions
          /\ (Returned(c, "get_transactions_since_id") /\ pc'[c] = "done")
                => ret'[c] = ret[c]
          /\ (Returned(c, "get_transactions_since_id") /\ ret'[c] # ret[c])
                => transactions' = transactions ]_vars

\* a returned history of one transaction is still held by its caller after
\* a second transaction has been committed
C35_Witness ==
    \E c \in Callers :
        /\ Returned(c, "get_transactions_since_id")
        /\ op[c].txn_id = 0
        /\ seen[c] = 1
        /\ ret[c] = RetTxns(<< accepted[1] >>)
        /\ Len(accepted[1]) > 0
        /\ Len(transactions) = 2

\* C36: every path the client's methods hand to url begins with '/', so no
\* remote call unwinds on url's assertion: every call sends its request.
C36_UrlAssertion ==
    remote.phase \in { "sent", "replied", "failed", "done" } =>
        /\ remote.ret # RemotePanic
        /\ Len(remote.sent) = 1
        /\ \A i \in 1..Len(remote.sent) : FirstChar(remote.sent[i].path) = "/"

\* a query of the items after a hash has sent its request and returned
C36_Witness ==
    /\ RemoteReturned("get_actions_since_hash")
    /\ Len(remote.sent) = 1
    /\ FirstChar(remote.sent[1].path) = "/"
    /\ remote.ret # RemotePanic
    /\ Len(remote.log) > 0

----------------------------------------------------------------------------
(* Optimistic writers.  Every caller is a writer that repeats the cycle:   *)
(* next_transaction_id(), get_transactions_since_id(0) to learn the head,  *)
(* add_transaction(id, batch linked to that head).  The three calls are    *)
(* the coordinator's methods above, each under the mutex; between two      *)
(* calls the other writers run freely.  A writer may stop between cycles.  *)

\* the items a writer can link to an item of hash p (the genesis item when
\* there is no head)
Successors(p) ==
    IF p = None THEN { [hash |-> 1, prev_hash |-> None] }
    ELSE { [hash |-> 2 * p, prev_hash |-> p], [hash |-> 2 * p + 1, prev_hash |-> p] }

\* the non-empty batches, at most MaxBatchLen long, whose first item names
\* the head p as its predecessor and whose items are linked one to the next
RECURSIVE LinkedBatches(_, _)
LinkedBatches(p, n) ==
    IF n = 0 THEN {}
    ELSE UNION { { << a >> } \cup { << a >> \o b : b \in LinkedBatches(a.hash, n - 1) }
                 : a \in Successors(p) }

\* the hash of the last item of a returned history, None when it has none
RECURSIVE HeadOf(_)
HeadOf(txns) ==
    IF Len(txns) = 0 THEN None
    ELSE IF Len(txns[Len(txns)]) > 0
         THEN txns[Len(txns)][Len(txns[Len(txns)])].hash
         ELSE HeadOf(SubSeq(txns, 1, Len(txns) - 1))

WriterInit ==
    /\ transactions = <<>>
    /\ mutex = 0
    /\ pc = [c \in Callers |-> "idle"]
    /\ op = [c \in Callers |-> NoOp]
    /\ ret = [c \in Callers |-> NoRet]
    /\ accepted = <<>>
    /\ seen = [c \in Callers |-> 0]
    /\ validation = NoValidation
    /\ handles = NoHandles
    /\ remote = NoRemote
    /\ writers = [c \in Callers |-> [NoWriter EXCEPT !.stage = "start"]]

\* the writer's call of a method: it waits for the mutex next
Enter(c, name, txn_id, actions) ==
    /\ pc' = [pc EXCEPT ![c] = "lock"]
    /\ op' = [op EXCEPT ![c] = [name |-> name, txn_id |-> txn_id, actions |-> actions]]
    /\ ret' = [ret EXCEPT ![c] = NoRet]
    /\ seen' = [seen EXCEPT ![c] = 0]

\* a cycle begins: the writer calls next_transaction_id()
begin_cycle(c) ==
    /\ writers[c].stage = "start"
    /\ pc[c] = "idle"
    /\ Len(transactions) < MaxTxns
    /\ Enter(c, "next_transaction_id", 0, <<>>)
    /\ writers' = [writers EXCEPT
                     ![c].stage = "reading",
                     ![c].alone = \A d \in Callers \ {c} : writers[d].stage = "stopped"]
    /\ UNCHANGED <<transactions, mutex, accepted, validation, handles, remote>>

\* the id has come back: the writer keeps it and asks for the history
fetch(c) ==
    /\ writers[c].stage = "reading"
    /\ pc[c] = "done"
    /\ Enter(c, "get_transactions_since_id", 0, <<>>)
    /\ writers' = [writers EXCEPT
                     ![c].stage = "fetching",
                     ![c].id = ret[c].id,
                     ![c].base = seen[c]]
    /\ UNCHANGED <<transactions, mutex, accepted, validation, handles, remote>>

\* the history has come back: the writer builds a batch linked to its head
\* and submits it under the id it read
submit(c) ==
    /\ writers[c].stage = "fetching"
    /\ pc[c] = "done"
    /\ ret[c].kind = "Transactions"
    /\ \E b \in LinkedBatches(HeadOf(ret[c].txns), MaxBatchLen) :
          Enter(c, "add_transaction", writers[c].id, b)
    /\ writers' = [writers EXCEPT ![c].stage = "adding"]
    /\ UNCHANGED <<transactions, mutex, accepted, validation, handles, remote>>

\* the add has returned: the writer goes back to the start of the cycle
retry(c) ==
    /\ writers[c].stage = "adding"
    /\ pc[c] = "done"
    /\ pc' = [pc EXCEPT ![c] = "idle"]
    /\ op' = [op EXCEPT ![c] = NoOp]
    /\ ret' = [ret EXCEPT ![c] = NoRet]
    /\ seen' = [seen EXCEPT ![c] = 0]
    /\ writers' = [writers EXCEPT
                     ![c].stage = "start",
                     ![c].retried = (ret[c] # RetOk)]
    /\ UNCHANGED <<transactions, mutex, accepted, validation, handles, remote>>

\* the writer gives up writing, before a cycle or after its add has returned
stop(c) ==
    /\ \/ writers[c].stage = "start" /\ pc[c] = "idle"
       \/ writers[c].stage = "adding" /\ pc[c] = "done"
    /\ pc' = [pc EXCEPT ![c] = "idle"]
    /\ op' = [op EXCEPT ![c] = NoOp]
    /\ ret' = [ret EXCEPT ![c] = NoRet]
    /\ seen' = [seen EXCEPT ![c] = 0]
    /\ writers' = [writers EXCEPT ![c].stage = "stopped"]
    /\ UNCHANGED <<transactions, mutex, accepted, validation, handles, remote>>

WriterNext ==
    \E c \in Callers :
        \/ begin_cycle(c)
        \/ fetch(c)
        \/ submit(c)
        \/ retry(c)
        \/ stop(c)
        \/ lock(c)
        \/ next_transaction_id(c)
        \/ get_transactions_since_id(c)
        \/ add_transaction(c)

WriterSpec == WriterInit /\ [][WriterNext]_vars

\* Fair scheduling of writers: the scheduling of FairSpec for the methods,
\* and a writer inside a cycle goes on to the cycle's next call.  A writer
\* need not begin another cycle.
WriterFairSpec ==
    /\ WriterSpec
    /\ \A c \in Callers :
          /\ SF_vars(lock(c))
          /\ WF_vars(next_transaction_id(c) \/ add_transaction(c)
                        \/ get_transactions_since_id(c))
          /\ WF_vars(fetch(c) \/ submit(c))

\* writer c's add has returned and its outcome is on record
Finished(c) == writers[c].stage = "adding" /\ pc[c] = "done"

\* an add was committed between c's read of the id and c's add; c itself
\* adds nothing in between, so it is another writer's
Overtaken(c) == seen[c] > writers[c].base

\* every finished attempt was refused only with WrongTransactionId and only
\* when overtaken; a writer that began its cycle with all others stopped has
\* committed; and when all writers have finished an attempt, one committed
C31_Rounds ==
    /\ \A c \in Callers :
          Finished(c) =>
              /\ ret[c] \in { RetOk, WrongTransactionId }
              /\ ret[c] = WrongTransactionId => Overtaken(c)
              /\ writers[c].alone => ret[c] = RetOk
    /\ (\A c \in Callers : Finished(c)) => \E c \in Callers : ret[c] = RetOk

\* C31: a writer's add fails with WrongTransactionId only if another
\* writer's add succeeded between that writer's read and its add; when every
\* writer has finished an attempt at least one has committed; and the
\* attempt of a writer that begins its cycle after the others stopped ends
\* in a commit.
C31_LockFreeProgress ==
    /\ []C31_Rounds
    /\ \A c \in Callers :
          (writers[c].stage = "reading" /\ writers[c].alone)
              ~> (Finished(c) /\ ret[c] = RetOk)

\* a writer that was refused has retried after the other stopped and has
\* committed the second transaction
C31_Witness ==
    \E c \in Callers :
        /\ Finished(c)
        /\ writers[c].retried
        /\ writers[c].alone
        /\ writers[c].id = 1
        /\ ret[c] = RetOk
        /\ Len(transactions) = 2

====
